---- MODULE Spec2Model ----
(***************************************************************************)
(* The record views of app/views.py (details, addnew, edit, delete,       *)
(* export_excel) over the MyTable store.  A request is handled by one     *)
(* view call; edit and delete issue two database statements each (the     *)
(* SELECT of objects.get, then the write), and other requests may run     *)
(* between the two, as nothing in the views locks the row.                *)
(***************************************************************************)
EXTENDS Integers, Sequences, FiniteSets, Bags, TLC

\* ------------------------------------------------------------------ bounds
\* At most MaxId records are ever created (ids 1..MaxId).
MaxId == 2

\* The worker processes serving requests: at most one request each is between
\* its two database statements.
Workers == {"w1", "w2"}

\* ------------------------------------------------------------------ users
AnonymousUser == "AnonymousUser"
Users == {"alice", "bob", "root"}
Requesters == Users \cup {AnonymousUser}

\* request.user.is_superuser
is_superuser(u) == u = "root"

\* Mutant: a view without its login gate.
no_login_required(u) == TRUE

\* @login_required(login_url='signin'): the view body runs only for an
\* authenticated session.
login_required(u) == u # AnonymousUser

\* ------------------------------------------------------------------ rows
Blank == ""

\* The columns of MyTable that values_list reads for a standard user, in order.
DataFields == <<"client_name", "date", "modified_at", "contact_number",
                "vendor_name", "vendor_company", "rate", "currency",
                "contract_type", "status", "comments">>

\* A row of MyTable.  client_name and status take several values; the other
\* nine data columns are carried with one value each.
Entry(id, user, cn, st) ==
    [id |-> id, user |-> user, client_name |-> cn, date |-> "2023-01-01",
     modified_at |-> "2023-01-02", contact_number |-> "555",
     vendor_name |-> "vn", vendor_company |-> "vc", rate |-> "10",
     currency |-> "USD", contract_type |-> "C2C", status |-> st,
     comments |-> "-"]


\* ------------------------------------------------------------------ requests
\* request.POST: the submitted form, with an owner value the client may add.
PostData ==
    {[client_name |-> "acme", status |-> "open", user |-> "root"],
     [client_name |-> "globex", status |-> "closed", user |-> "alice"],
     [client_name |-> Blank, status |-> "open", user |-> "root"]}

\* What a request to a form view carries: a GET, or a POST with its form.
FormRequests ==
    {[method |-> "GET", POST |-> [client_name |-> Blank, status |-> Blank, user |-> Blank]]}
    \cup {[method |-> "POST", POST |-> p] : p \in PostData}

\* request.GET of the list view: a blank value leaves the field unfiltered.
NoParams == [client_name |-> Blank, status |-> Blank]
GetParams == {NoParams, [client_name |-> "acme", status |-> Blank],
              [client_name |-> Blank, status |-> "closed"]}

VARIABLES
    MyTable,     \* the store: the set of rows
    next_id,     \* the next value of the auto-increment primary key
    inflight,    \* edit/delete requests between their SELECT and their write
    response,    \* the step just taken and the response it returned, if any
    creator      \* history: id -> the requester whose addnew inserted the id

vars == <<MyTable, next_id, inflight, response, creator>>

\* ------------------------------------------------------------------ responses
NoSheet == <<>>

Response(view, step, u, req_id, status, params, qs, sheet) ==
    [view |-> view, step |-> step, user |-> u, req_id |-> req_id,
     status |-> status, params |-> params, qs |-> qs, sheet |-> sheet]

\* redirect('signin') of login_required, before the view body runs.
RedirectSignin(view, u, req_id) ==
    Response(view, "gate", u, req_id, "302 signin", NoParams, {}, NoSheet)

\* ------------------------------------------------------------------ app.filters, app.forms
\* FormFilter(request.GET, queryset=all_details).qs: each given field narrows
\* the queryset by equality, a field left blank is not filtered on.
FormFilter(params, qs) ==
    {r \in qs : /\ (params.client_name = Blank \/ r.client_name = params.client_name)
                /\ (params.status = Blank \/ r.status = params.status)}

\* MyTableForm(request.POST).is_valid(): a blank required field is malformed input.
is_valid(post) == post.client_name # Blank

\* What a valid MyTableForm puts on its instance: the data fields of the form.
\* The owner is not a field of the form; a posted owner value is ignored.
construct_instance(inst, post) ==
    [inst EXCEPT !.client_name = post.client_name, !.status = post.status]

\* ------------------------------------------------------------------ the ORM calls of the views
\* Mutant: the list is not scoped to the requester.
all_details_unscoped(u) == MyTable

\* Mutant: the administrator is scoped like a standard user.
all_details_owner_only(u) == {r \in MyTable : r.user = u}

\* details: the queryset the requester may list.
all_details(u) ==
    IF is_superuser(u) THEN MyTable ELSE {r \in MyTable : r.user = u}

\* MyTable.objects.get(id=req_id): the rows with that id; none is DoesNotExist.
objects_get(req_id) == {r \in MyTable : r.id = req_id}

\* Mutant: any signed-in user passes the check.
has_permission_signed_in(detail, u) == detail.user = u \/ login_required(u)

\* Mutant: the administrator is not exempt from the check.
has_permission_owner_only(detail, u) == detail.user = u

\* The ownership check of edit and delete (the negation of the 403 condition).
has_permission(detail, u) == detail.user = u \/ is_superuser(u)

\* Mutant: the generic except clause answers for a missing record.
ErrorOccurred == "500 An error occurred"

\* The response of the except MyTable.DoesNotExist clause.
RecordNotFound == "500 Record not found."

\* Mutant: the owner is taken from the submitted form.
new_entry_posted_owner(post, u, id) ==
    construct_instance(Entry(id, post.user, Blank, Blank), post)

\* addnew: form.save(commit=False), then new_entry.user = request.user; the
\* INSERT gives the row the next id.
new_entry(post, u, id) ==
    [construct_instance(Entry(id, post.user, Blank, Blank), post) EXCEPT !.user = u]

\* Mutant: the UPDATE writes one column and leaves the others as stored.
model_save_partial(table, inst) ==
    IF \E r \in table : r.id = inst.id
    THEN {IF r.id = inst.id THEN [r EXCEPT !.client_name = inst.client_name] ELSE r :
            r \in table}
    ELSE table \cup {inst}

\* Model.save() of an instance whose primary key is set: UPDATE of every
\* column WHERE id = pk and, when that matches no row, INSERT of the instance.
model_save(table, inst) == {r \in table : r.id # inst.id} \cup {inst}

\* detail.delete(): DELETE WHERE id = pk; no row matching is not an error.
detail_delete(table, pk) == {r \in table : r.id # pk}

\* ------------------------------------------------------------------ export_excel
DataTitles == <<"Client Name", "Entry Date", "Modified At", "Contact Number",
                "Vendor Name", "Vendor Company", "Rate", "Currency",
                "Contract Type", "Status", "Comments">>

columns(u) == IF is_superuser(u) THEN DataTitles \o <<"User">> ELSE DataTitles

export_fields(u) == IF is_superuser(u) THEN DataFields \o <<"user">> ELSE DataFields

\* Mutant: the standard user's export is not scoped.
export_queryset_all(u) == MyTable

\* The queryset export_excel iterates.
export_queryset(u) ==
    IF is_superuser(u) THEN MyTable ELSE {r \in MyTable : r.user = u}

\* values_list(*fields) of one row.
values_list(r, fields) == [i \in 1..Len(fields) |-> r[fields[i]]]

\* The queryset has no ORDER BY: the rows come in any order.
Orderings(S) ==
    {o \in [1..Cardinality(S) -> S] : \A i, j \in 1..Cardinality(S) : o[i] = o[j] => i = j}

\* The worksheet: row 0 holds the column titles, then rownum += 1 per row, one
\* cell per value of the row.
worksheet(u, order) ==
    <<[c \in 1..Len(columns(u)) |-> columns(u)[c]]>>
    \o [n \in 1..Len(order) |-> values_list(order[n], export_fields(u))]

\* ------------------------------------------------------------------ initial state
Init ==
    /\ MyTable = {}
    /\ next_id = 1
    /\ inflight = EmptyBag
    /\ response = Response("none", "none", AnonymousUser, 0, "none", NoParams, {}, NoSheet)
    /\ creator = [i \in 1..MaxId |-> AnonymousUser]

\* ------------------------------------------------------------------ views
\* details(request): lines 104-141.
details(u, params) ==
    /\ response' =
         IF ~login_required(u)
         THEN RedirectSignin("details", u, 0)
         ELSE Response("details", "view", u, 0, "200 details.html", params,
                       FormFilter(params, all_details(u)), NoSheet)
    /\ UNCHANGED <<MyTable, next_id, inflight, creator>>

\* addnew(request): lines 144-171.
addnew(u, req) ==
    IF ~login_required(u)
    THEN /\ response' = RedirectSignin("addnew", u, 0)
         /\ UNCHANGED <<MyTable, next_id, inflight, creator>>
    ELSE IF req.method = "POST" /\ is_valid(req.POST)
    THEN /\ next_id <= MaxId
         /\ MyTable' = model_save(MyTable, new_entry(req.POST, u, next_id))
         /\ next_id' = next_id + 1
         /\ creator' = [creator EXCEPT ![next_id] = u]
         /\ response' = Response("addnew", "write", u, next_id, "302 details",
                                 NoParams, {}, NoSheet)
         /\ UNCHANGED inflight
    ELSE /\ response' = Response("addnew", "view", u, 0, "200 form.html",
                                 NoParams, {}, NoSheet)
         /\ UNCHANGED <<MyTable, next_id, inflight, creator>>

\* edit(request, req_id), up to form.is_valid(): lines 174-200 and 203-211.
\* A valid POST goes on to form.save() in edit_save.
edit(u, req_id, req) ==
    /\ UNCHANGED <<MyTable, next_id, creator>>
    /\ IF ~login_required(u)
       THEN /\ response' = RedirectSignin("edit", u, req_id)
            /\ UNCHANGED inflight
       ELSE IF objects_get(req_id) = {}
       THEN /\ response' = Response("edit", "get", u, req_id, RecordNotFound,
                                    NoParams, {}, NoSheet)
            /\ UNCHANGED inflight
       ELSE \E edit_detail \in objects_get(req_id) :
            IF ~has_permission(edit_detail, u)
            THEN /\ response' = Response("edit", "get", u, req_id, "403",
                                         NoParams, {}, NoSheet)
                 /\ UNCHANGED inflight
            ELSE IF req.method = "POST" /\ is_valid(req.POST)
            THEN /\ BagCardinality(inflight) < Cardinality(Workers)
                 /\ inflight' = inflight (+) SetToBag(
                       {[view |-> "edit", user |-> u,
                         inst |-> construct_instance(edit_detail, req.POST)]})
                 /\ response' = Response("edit", "get", u, req_id, "none",
                                         NoParams, {}, NoSheet)
            ELSE /\ response' = Response("edit", "get", u, req_id, "200 edit.html",
                                         NoParams, {}, NoSheet)
                 /\ UNCHANGED inflight

\* edit: form.save() and redirect('details'): lines 201-202.
edit_save(f) ==
    /\ f.view = "edit"
    /\ MyTable' = model_save(MyTable, f.inst)
    /\ inflight' = inflight (-) SetToBag({f})
    /\ response' = Response("edit", "write", f.user, f.inst.id, "302 details",
                            NoParams, {f.inst}, NoSheet)
    /\ UNCHANGED <<next_id, creator>>

\* delete(request, req_id), up to the ownership check: lines 214-240, 244-247.
delete(u, req_id) ==
    /\ UNCHANGED <<MyTable, next_id, creator>>
    /\ IF ~login_required(u)
       THEN /\ response' = RedirectSignin("delete", u, req_id)
            /\ UNCHANGED inflight
       ELSE IF objects_get(req_id) = {}
       THEN /\ response' = Response("delete", "get", u, req_id, RecordNotFound,
                                    NoParams, {}, NoSheet)
            /\ UNCHANGED inflight
       ELSE \E detail \in objects_get(req_id) :
            IF ~has_permission(detail, u)
            THEN /\ response' = Response("delete", "get", u, req_id, "403",
                                         NoParams, {}, NoSheet)
                 /\ UNCHANGED inflight
            ELSE /\ BagCardinality(inflight) < Cardinality(Workers)
                 /\ inflight' = inflight (+) SetToBag(
                       {[view |-> "delete", user |-> u, pk |-> detail.id]})
                 /\ response' = Response("delete", "get", u, req_id, "none",
                                         NoParams, {}, NoSheet)

\* delete: detail.delete() and redirect('details'): lines 242-243.
delete_detail(f) ==
    /\ f.view = "delete"
    /\ MyTable' = detail_delete(MyTable, f.pk)
    /\ inflight' = inflight (-) SetToBag({f})
    /\ response' = Response("delete", "write", f.user, f.pk, "302 details",
                            NoParams, {}, NoSheet)
    /\ UNCHANGED <<next_id, creator>>

\* export_excel(request): lines 250-330.  The view has no login gate and no
\* try/except.  For an anonymous requester filter(user=request.user) either
\* raises (the framework answers 500) or matches no row.
export_excel(u, raises) ==
    /\ UNCHANGED <<MyTable, next_id, inflight, creator>>
    /\ IF u = AnonymousUser /\ raises
       THEN response' = Response("export_excel", "view", u, 0, "500",
                                 NoParams, {}, NoSheet)
       ELSE \E order \in Orderings(export_queryset(u)) :
              response' = Response("export_excel", "view", u, 0, "200 xls",
                                   NoParams, {}, worksheet(u, order))

\* ------------------------------------------------------------------ specifications
\* No request is between its two database statements.
Idle == inflight = EmptyBag

\* One request at a time (a single worker): every view, every requester.
Next ==
    \/ \E u \in Requesters, params \in GetParams : Idle /\ details(u, params)
    \/ \E u \in Requesters, req \in FormRequests : Idle /\ addnew(u, req)
    \/ \E u \in Requesters, req_id \in 1..MaxId, req \in FormRequests :
          Idle /\ edit(u, req_id, req)
    \/ \E f \in BagToSet(inflight) : edit_save(f)
    \/ \E u \in Requesters, req_id \in 1..MaxId : Idle /\ delete(u, req_id)
    \/ \E f \in BagToSet(inflight) : delete_detail(f)
    \/ \E u \in Requesters, raises \in BOOLEAN : Idle /\ export_excel(u, raises)

Spec == Init /\ [][Next]_vars

\* Overlapping requests of the writing views, by signed-in users: the workers
\* interleave at the database statements.  Records are added by the standard
\* users; the administrator edits and deletes.
StandardUsers == {u \in Users : ~is_superuser(u)}

NextOverlap ==
    \/ \E u \in StandardUsers, req \in FormRequests : addnew(u, req)
    \/ \E u \in Users, req_id \in 1..MaxId, req \in FormRequests : edit(u, req_id, req)
    \/ \E f \in BagToSet(inflight) : edit_save(f)
    \/ \E u \in Users, req_id \in 1..MaxId : delete(u, req_id)
    \/ \E f \in BagToSet(inflight) : delete_detail(f)

SpecOverlap == Init /\ [][NextOverlap]_vars

\* ------------------------------------------------------------------ properties
RowsWithId(table, id) == {r \in table : r.id = id}

\* C1: a list response to a signed-in non-administrator U, whatever the filter
\* parameters, holds only rows of the store whose owner is U.
C1_ListOnlyOwnRecords ==
    (response.view = "details" /\ response.status = "200 details.html"
       /\ response.user # "root")
    => \A r \in response.qs : r.user = response.user /\ r \in MyTable

\* bob lists his own rows, unfiltered, while alice has a row in the store.
C1_Witness ==
    /\ response.view = "details" /\ response.user = "bob"
    /\ response.params = NoParams /\ response.qs # {}
    /\ \E r \in MyTable : r.user = "alice"

\* C2: the lookup step of an edit or delete by a non-administrator, for an
\* existing row owned by somebody else, answers 403, leaves the store as it
\* was and does not go on to the write.
C2_ForeignWriteForbidden ==
    [][(/\ response'.view \in {"edit", "delete"} /\ response'.step = "get"
        /\ response'.user # "root"
        /\ \E r \in MyTable : r.id = response'.req_id /\ r.user # response'.user)
       => (response'.status = "403" /\ MyTable' = MyTable /\ inflight' = inflight)]_vars

\* An edit of somebody else's existing row was refused.
C2_Witness ==
    /\ response.view = "edit" /\ response.status = "403"
    /\ \E r \in MyTable : r.id = response.req_id /\ r.user # response.user

\* C3: every row of the store has one owner, the requester whose addnew made
\* the row; there is one row per id.
C3_OwnerIsCreator ==
    \A r \in MyTable :
        /\ r.user = creator[r.id]
        /\ RowsWithId(MyTable, r.id) = {r}

\* The administrator has just saved an edit of alice's row, which alice had
\* created: the row is still alice's.
C3_Witness ==
    /\ response.view = "edit" /\ response.step = "write" /\ response.user = "root"
    /\ \E r \in MyTable : r.id = response.req_id /\ r.user = "alice"

\* C4: a list response to the administrator without filter parameters is the
\* whole store.
C4_AdminListsAll ==
    (response.view = "details" /\ response.status = "200 details.html"
       /\ response.user = "root" /\ response.params = NoParams)
    => response.qs = MyTable

\* The administrator lists a store that holds rows of two owners.
C4_Witness ==
    /\ response.view = "details" /\ response.user = "root"
    /\ response.params = NoParams
    /\ \E r, q \in response.qs : r.user # q.user

\* C5: an exported sheet has one header row and one data row per row visible
\* to the requester (all rows for the administrator, the own rows otherwise);
\* every row of the sheet has 12 cells for the administrator and 11 otherwise.
C5_ExportShape ==
    (response.view = "export_excel" /\ response.status = "200 xls")
    => LET u == response.user
           visible == IF u = "root" THEN MyTable ELSE {r \in MyTable : r.user = u}
           width == IF u = "root" THEN 12 ELSE 11
       IN  /\ Len(response.sheet) = 1 + Cardinality(visible)
           /\ \A n \in 1..Len(response.sheet) : Len(response.sheet[n]) = width

\* alice exports her one row from a store of two rows.
C5_Witness ==
    /\ response.view = "export_excel" /\ response.user = "alice"
    /\ Len(response.sheet) = 2 /\ Cardinality(MyTable) = 2

\* C6: with alice the owner of a row R1, bob a standard user and root the
\* administrator: bob's list omits alice's rows; bob's edit or delete of R1 is
\* answered 403 with the store as it was; root's unfiltered list holds R1;
\* root's edit of R1 is not refused, and its save leaves R1 as submitted;
\* root's delete of R1 is not refused, and its DELETE removes R1.
C6_Scenario ==
    [][LET v == response'
           alices == \E r \in MyTable : r.id = v.req_id /\ r.user = "alice"
       IN  /\ (v.view = "details" /\ v.user = "bob")
                => \A r \in v.qs : r.user # "alice"
           /\ (v.view \in {"edit", "delete"} /\ v.step = "get" /\ v.user = "bob" /\ alices)
                => (v.status = "403" /\ MyTable' = MyTable /\ inflight' = inflight)
           /\ (v.view = "details" /\ v.user = "root" /\ v.params = NoParams)
                => \A r \in MyTable : r.user = "alice" => r \in v.qs
           /\ (v.view = "edit" /\ v.step = "get" /\ v.user = "root" /\ alices)
                => /\ v.status \in {"none", "200 edit.html"}
                   /\ v.status = "none" <=> inflight' # inflight
           /\ (v.view = "edit" /\ v.step = "write" /\ v.user = "root")
                => \E f \in BagToSet(inflight) :
                      /\ f.view = "edit" /\ f.user = "root" /\ f.inst.id = v.req_id
                      /\ RowsWithId(MyTable', v.req_id) = {f.inst}
                      /\ v.status = "302 details"
           /\ (v.view = "delete" /\ v.step = "get" /\ v.user = "root" /\ alices)
                => (v.status = "none" /\ inflight' # inflight)
           /\ (v.view = "delete" /\ v.step = "write" /\ v.user = "root")
                => (RowsWithId(MyTable', v.req_id) = {} /\ v.status = "302 details")]_vars

\* The administrator has just deleted a row that alice created.
C6_Witness ==
    /\ response.view = "delete" /\ response.step = "write" /\ response.user = "root"
    /\ creator[response.req_id] = "alice"
    /\ RowsWithId(MyTable, response.req_id) = {}

\* C7: the lookup step of an edit or delete by a signed-in user for an id with
\* no row answers 500 "Record not found." and changes nothing: no row is
\* made and the request does not go on to a write.
C7_MissingRecordNotFound ==
    [][(/\ response'.view \in {"edit", "delete"} /\ response'.step = "get"
        /\ RowsWithId(MyTable, response'.req_id) = {})
       => (/\ response'.status = "500 Record not found."
           /\ MyTable' = MyTable /\ inflight' = inflight /\ next_id' = next_id)]_vars

\* A user edits the id of a row they created and that has been deleted.
C7_Witness ==
    /\ response.view = "edit" /\ response.status = "500 Record not found."
    /\ creator[response.req_id] = response.user

\* C8: right after the save of an edit, the stored row with that id is, field
\* for field, the instance that request submitted, and its owner is the
\* creator's: whatever another edit in flight saved before is overwritten
\* whole.
C8_LastSaveWins ==
    (response.view = "edit" /\ response.step = "write")
    => /\ RowsWithId(MyTable, response.req_id) = response.qs
       /\ \A r \in response.qs : r.user = creator[r.id]

\* One edit has saved while another edit of the same row, loaded before that
\* save and submitting other values, is still to save.
C8_Witness ==
    /\ response.view = "edit" /\ response.step = "write"
    /\ \E f \in BagToSet(inflight) :
          /\ f.view = "edit" /\ f.inst.id = response.req_id
          /\ f.inst \notin response.qs

\* C9: an id enters the store only in a step of addnew; in particular the
\* save of an edit does not bring back a row that a delete has removed.
C9_OnlyAddnewInserts ==
    [][\A r \in MyTable' :
          RowsWithId(MyTable, r.id) = {} => response'.view = "addnew"]_vars

\* C10: a request without a session changes nothing and is given no row:
\* details, addnew, edit and delete answer with the redirect to signin, and an
\* export holds at most the header row.
C10_AnonymousGetsNothing ==
    [][(response'.user = AnonymousUser /\ response'.view # "none")
       => (/\ MyTable' = MyTable /\ inflight' = inflight /\ next_id' = next_id
           /\ response'.qs = {}
           /\ Len(response'.sheet) <= 1
           /\ response'.view \in {"details", "addnew", "edit", "delete"}
                => response'.status = "302 signin")]_vars

\* An anonymous delete of an existing row was redirected to signin.
C10_Witness ==
    /\ response.view = "delete" /\ response.user = AnonymousUser
    /\ response.status = "302 signin"
    /\ RowsWithId(MyTable, response.req_id) # {}

====
